---- MODULE Spec2Model ----
(***************************************************************************)
(* opsproxy (main.go): a single-target reverse proxy.  The handler         *)
(* classifies each inbound request with isUpgradeRequest; upgrade requests *)
(* go to proxyUpgrade (hijack, dial, replay, two copy goroutines, first    *)
(* result wins), all others go through the log-level switch and            *)
(* proxy.ServeHTTP with its ErrorHandler.                                  *)
(*                                                                         *)
(* Go strings are modelled as sequences of one-character strings so that   *)
(* strings.ToLower, strings.EqualFold and strings.Contains are computed.   *)
(***************************************************************************)
EXTENDS Integers, Sequences, FiniteSets, TLC

\* ---------------------------------------------------------------- bounds
\* number of requests the server receives over the modelled lifetime
NumReqs == 2
\* number of bytes each peer may send on a hijacked connection
MaxStream == 1

\* capacity of the completion channel: make(chan error, 2)
ErrcCap == 2

Reqs == 1..NumReqs

\* Upgrade sessions share no state with each other (every field of a session
\* is local to its proxyUpgrade call), so one request of the run may carry
\* any header set and the others carry those of ordinary requests.
SessionReqs == {1}

\* ---------------------------------------------------------------- strings
UpperChars == <<"A","B","C","D","E","F","G","H","I","J","K","L","M",
                "N","O","P","Q","R","S","T","U","V","W","X","Y","Z">>
LowerChars == <<"a","b","c","d","e","f","g","h","i","j","k","l","m",
                "n","o","p","q","r","s","t","u","v","w","x","y","z">>

LowerChar(c) ==
    IF \E i \in DOMAIN UpperChars : UpperChars[i] = c
    THEN LowerChars[CHOOSE i \in DOMAIN UpperChars : UpperChars[i] = c]
    ELSE c

\* strings.ToLower
ToLower(s) == [i \in DOMAIN s |-> LowerChar(s[i])]

\* strings.EqualFold (ASCII case folding)
EqualFold(a, b) == ToLower(a) = ToLower(b)

\* strings.Contains
Contains(s, sub) ==
    \E i \in 0..(Len(s) - Len(sub)) : SubSeq(s, i + 1, i + Len(sub)) = sub

sUpgrade == <<"u","p","g","r","a","d","e">>
sVerbose == <<"v","e","r","b","o","s","e">>
sInfo    == <<"i","n","f","o">>
sError   == <<"e","r","r","o","r">>

\* values of the --log-level flag the process may be started with
LogLevels == { sVerbose, sInfo, sError,
               <<"I","N","F","O">>, <<"d","e","b","u","g">> }

\* ---------------------------------------------------------------- target
\* strings.HasPrefix
HasPrefix(s, p) == Len(s) >= Len(p) /\ SubSeq(s, 1, Len(p)) = p

\* strings.Index / strings.LastIndex of a one-character string, 0 when absent
IndexOf(s, c) ==
    IF \E i \in DOMAIN s : s[i] = c
    THEN CHOOSE i \in DOMAIN s : s[i] = c /\ \A j \in 1..(i - 1) : s[j] # c
    ELSE 0
LastIndexOf(s, c) ==
    IF \E i \in DOMAIN s : s[i] = c
    THEN CHOOSE i \in DOMAIN s : s[i] = c /\ \A j \in (i + 1)..Len(s) : s[j] # c
    ELSE 0
CountOf(s, c) == Cardinality({i \in DOMAIN s : s[i] = c})

DigitChars == <<"0","1","2","3","4","5","6","7","8","9">>
IsDigit(c) == \E i \in DOMAIN DigitChars : DigitChars[i] = c

\* fmt.Sprintf("%d", n) for n >= 0
RECURSIVE Itoa(_)
Itoa(n) ==
    IF n < 10 THEN <<DigitChars[n + 1]>>
    ELSE Itoa(n \div 10) \o <<DigitChars[(n % 10) + 1]>>

sHttpPrefix  == <<"h","t","t","p",":","/","/">>
sHttpsPrefix == <<"h","t","t","p","s",":","/","/">>

\* main, lines 43-54: the target string built from the two flags
BuildTarget(host, port) ==
    IF HasPrefix(host, sHttpPrefix) \/ HasPrefix(host, sHttpsPrefix)
    THEN IF Contains(host, <<":">>)
         THEN host
         ELSE host \o <<":">> \o Itoa(port)
    ELSE sHttpPrefix \o host \o <<":">> \o Itoa(port)

NoURL == [Scheme |-> << >>, Host |-> << >>]

\* net/url parseHost: what follows the last colon of the host must be digits
ValidOptionalPort(host) ==
    LET i == LastIndexOf(host, ":") IN
    i = 0 \/ \A j \in (i + 1)..Len(host) : IsDigit(host[j])

\* url.Parse(t) for a target "scheme://host[:port]": the set of results the
\* library can give, NoURL standing for an error.  A host with more than one
\* colon is accepted by the releases that validate only the last colon and
\* rejected by the releases that validate every colon.
ParseURL(t) ==
    LET i    == IndexOf(t, ":")
        rest == SubSeq(t, i + 1, Len(t))
        host == SubSeq(rest, 3, Len(rest))
        ok   == [Scheme |-> ToLower(SubSeq(t, 1, i - 1)), Host |-> host]
    IN  IF i <= 1 \/ ~HasPrefix(rest, <<"/","/">>) \/ ~ValidOptionalPort(host)
        THEN {NoURL}
        ELSE IF CountOf(host, ":") > 1 THEN {ok, NoURL}
        ELSE {ok}

\* net.Dial / tls.Dial need "host:port": an address without a port or with
\* more than one colon is refused before any connection is attempted
DialableAddr(addr) ==
    /\ CountOf(addr, ":") = 1
    /\ LastIndexOf(addr, ":") < Len(addr)

\* the flag defaults
DefaultTargetHost == <<"1","2","7",".","0",".","0",".","1">>
DefaultTargetPort == 8080

\* values of --target-host and --target-port the process may be started with
TargetHosts == { DefaultTargetHost,
                 <<"e","x","a","m","p","l","e",".","c","o","m">>,
                 <<"h","t","t","p",":","/","/","e","x","a","m","p","l","e",".","c","o","m">>,
                 <<"h","t","t","p","s",":","/","/","e","x","a","m","p","l","e",".","c","o","m">>,
                 <<"h","t","t","p","s",":","/","/","e","x","a","m","p","l","e",".","c","o","m",":","9","4","4","3">>,
                 <<"e","x","a","m","p","l","e",".","c","o","m",":","9","4","4","3">> }
TargetPorts == { DefaultTargetPort, 9999 }

\* ---------------------------------------------------------------- requests
\* a header set: each key maps to the list of its values
hUpgradeConn == [Connection |-> << <<"U","p","g","r","a","d","e">> >>,
                 Upgrade    |-> << <<"w","s">> >>]
hPlain       == [Connection |-> << <<"c","l","o","s","e">> >>,
                 Upgrade    |-> << >>]

hUpgradeOnly == [Connection |-> << >>,
                 Upgrade    |-> << <<"w","s">> >>]

ReqHeaders == { hUpgradeConn, hUpgradeOnly, hPlain }

\* http.Header.Get: the first value of the key, "" when absent
HeaderGet(h, key) == IF h[key] = << >> THEN << >> ELSE h[key][1]

isUpgradeRequest(h) ==
    LET up == HeaderGet(h, "Connection") IN
    IF EqualFold(up, sUpgrade) THEN TRUE
    ELSE IF Contains(ToLower(up), sUpgrade) THEN TRUE
    ELSE HeaderGet(h, "Upgrade") # << >>

\* the header sets request r may arrive with
ArrivingHeaders(r) ==
    IF r \in SessionReqs THEN ReqHeaders
    ELSE { h \in ReqHeaders : ~isUpgradeRequest(h) }

\* the bytes each peer would send on the raw connection, and the request
\* as r.Write serializes it
ClientStream == [i \in 1..MaxStream |-> <<"c", i>>]
BackendStream == [i \in 1..MaxStream |-> <<"b", i>>]
Serialized(h) == <<"REQ", h>>

\* ---------------------------------------------------------------- state
VARIABLES
    logLevel,     \* *logLevel, fixed by flag.Parse
    targetHost,   \* *targetHost, fixed by flag.Parse
    targetPort,   \* *targetPort, fixed by flag.Parse
    target,       \* the target string main builds
    u,            \* the URL url.Parse returns for target
    phase,        \* "flags" (parsed), "serving", or "fatal" (log.Fatalf)
    firstLogged,  \* var firstLogged int32
    pc,           \* position of each request's handler
    hdr,          \* r.Header of each request
    hijacked,     \* whether hj.Hijack() has succeeded on w
    clientConn,   \* "server" (owned by net/http), "open" (hijacked), "closed"
    backendConn,  \* "none", "open", "closed"
    dials,        \* number of dial calls made for the request
    clientIn,     \* bytes the client has still to deliver on its connection
    backendIn,    \* bytes the backend has still to deliver on its connection
    clientEOF,    \* the client has closed its side
    backendEOF,   \* the backend has closed its side
    toBackend,    \* bytes written to backendConn
    toClient,     \* bytes written to clientConn
    task,         \* state of the two copy goroutines
    errc,         \* the completion channel
    sent,         \* every value sent on errc so far, in order
    ret,          \* value returned by proxyUpgrade
    logs,         \* log lines printed for the request, by tag
    resp,         \* HTTP status the client received
    hijackedWrites \* http.Error calls made on w after it was hijacked

cfgVars == <<logLevel, targetHost, targetPort, target, u, phase>>
connVars == <<hijacked, clientConn, backendConn, dials>>
streamVars == <<clientIn, backendIn, clientEOF, backendEOF, toBackend, toClient>>
taskVars == <<task, errc, sent>>
outVars == <<logs, resp, hijackedWrites>>
reqVars == <<hdr>>

vars == <<cfgVars, firstLogged, pc, reqVars, connVars, streamVars,
          taskVars, ret, outVars>>

NoLogs == [FORWARD |-> 0, FIRST |-> 0, ERROR |-> 0]

\* the state after flag.Parse, for the given sets of flag values
InitWith(levels, hosts, ports) ==
    /\ logLevel \in levels
    /\ targetHost \in hosts
    /\ targetPort \in ports
    /\ target = << >>
    /\ u = NoURL
    /\ phase = "flags"
    /\ firstLogged = 0
    /\ pc = [r \in Reqs |-> "idle"]
    /\ hdr = [r \in Reqs |-> hPlain]
    /\ hijacked = [r \in Reqs |-> FALSE]
    /\ clientConn = [r \in Reqs |-> "server"]
    /\ backendConn = [r \in Reqs |-> "none"]
    /\ dials = [r \in Reqs |-> 0]
    /\ clientIn = [r \in Reqs |-> << >>]
    /\ backendIn = [r \in Reqs |-> << >>]
    /\ clientEOF = [r \in Reqs |-> FALSE]
    /\ backendEOF = [r \in Reqs |-> FALSE]
    /\ toBackend = [r \in Reqs |-> << >>]
    /\ toClient = [r \in Reqs |-> << >>]
    /\ task = [r \in Reqs |-> [c2b |-> "none", b2c |-> "none"]]
    /\ errc = [r \in Reqs |-> << >>]
    /\ sent = [r \in Reqs |-> << >>]
    /\ ret = [r \in Reqs |-> "pending"]
    /\ logs = [r \in Reqs |-> NoLogs]
    /\ resp = [r \in Reqs |-> "none"]
    /\ hijackedWrites = [r \in Reqs |-> 0]

\* started with the default --target-host and --target-port
Init == InitWith(LogLevels, {DefaultTargetHost}, {DefaultTargetPort})

\* lines 43-59 of main: build the target, parse it, or die
ResolveTarget ==
    /\ phase = "flags"
    /\ target' = BuildTarget(targetHost, targetPort)
    /\ \E res \in ParseURL(BuildTarget(targetHost, targetPort)) :
          /\ u' = res
          /\ phase' = IF res = NoURL THEN "fatal" ELSE "serving"
    /\ UNCHANGED <<logLevel, targetHost, targetPort, firstLogged, pc, reqVars,
                   connVars, streamVars, taskVars, ret, outVars>>

\* ---------------------------------------------------------------- helpers
AddLog(l, tag) == [l EXCEPT ![tag] = @ + 1]

\* a compare-and-swap that reports success without storing the new value
CasValue_NoStore(cur) == cur

\* a swap that flips the flag whatever its value
CasValue_Toggle(cur) == IF cur = 0 THEN 1 ELSE 0

\* atomic.CompareAndSwapInt32(&firstLogged, 0, 1): the new value of the flag
CasValue(cur) == IF cur = 0 THEN 1 ELSE cur
\* ... and whether the swap happened
CasSwapped(cur) == cur = 0

\* proxyUpgrade without one of its deferred closes
DeferredClientClose_Leak(c) == c
DeferredBackendClose_Leak(b) == b

\* the deferred closes of proxyUpgrade, run at its return
DeferredClientClose(c) == "closed"
DeferredBackendClose(b) == IF b = "open" THEN "closed" ELSE b

\* an http.Error whose status never reaches the client
HttpErrorResp_Dropped(isHijacked, cur) == cur

\* http.Error(w, "Bad Gateway", 502): reaches the client only when w still
\* owns the connection; on a hijacked w net/http drops the write
HttpErrorResp(isHijacked, cur) == IF isHijacked THEN cur ELSE "502"
HttpErrorOnHijacked(isHijacked, n) == IF isHijacked THEN n + 1 ELSE n

\* ---------------------------------------------------------------- handler
\* a request arrives and net/http invokes the handler
Arrive(r) ==
    /\ phase = "serving"
    /\ pc[r] = "idle"
    /\ \E h \in ArrivingHeaders(r) : hdr' = [hdr EXCEPT ![r] = h]
    /\ pc' = [pc EXCEPT ![r] = "handler"]
    /\ UNCHANGED <<cfgVars, firstLogged, connVars, streamVars, taskVars,
                   ret, outVars>>

\* the handler with the test of its first branch negated
Dispatch_Negated(r) ==
    /\ pc[r] = "handler"
    /\ pc' = [pc EXCEPT ![r] = IF ~isUpgradeRequest(hdr[r]) THEN "hijack"
                                ELSE "switch"]
    /\ UNCHANGED <<cfgVars, firstLogged, reqVars, connVars, streamVars,
                   taskVars, ret, outVars>>

\* if isUpgradeRequest(r) { proxyUpgrade ...; return }
Dispatch(r) ==
    /\ pc[r] = "handler"
    /\ pc' = [pc EXCEPT ![r] = IF isUpgradeRequest(hdr[r]) THEN "hijack"
                                ELSE "switch"]
    /\ UNCHANGED <<cfgVars, firstLogged, reqVars, connVars, streamVars,
                   taskVars, ret, outVars>>

\* ---------------------------------------------------------------- proxyUpgrade
\* w.(http.Hijacker) fails
HijackUnsupported(r) ==
    /\ pc[r] = "hijack"
    /\ ret' = [ret EXCEPT ![r] = "nohijacker"]
    /\ pc' = [pc EXCEPT ![r] = "uperr"]
    /\ UNCHANGED <<cfgVars, firstLogged, reqVars, connVars, streamVars,
                   taskVars, outVars>>

\* hj.Hijack() returns an error
HijackFail(r) ==
    /\ pc[r] = "hijack"
    /\ ret' = [ret EXCEPT ![r] = "hijackfail"]
    /\ pc' = [pc EXCEPT ![r] = "uperr"]
    /\ UNCHANGED <<cfgVars, firstLogged, reqVars, connVars, streamVars,
                   taskVars, outVars>>

\* hj.Hijack() succeeds; the close of clientConn is deferred
HijackOk(r) ==
    /\ pc[r] = "hijack"
    /\ hijacked' = [hijacked EXCEPT ![r] = TRUE]
    /\ clientConn' = [clientConn EXCEPT ![r] = "open"]
    /\ clientIn' = [clientIn EXCEPT ![r] = ClientStream]
    /\ pc' = [pc EXCEPT ![r] = "dial"]
    /\ UNCHANGED <<cfgVars, firstLogged, reqVars, backendConn, dials,
                   backendIn, clientEOF, backendEOF, toBackend, toClient,
                   taskVars, ret, outVars>>

\* tls.Dial / net.Dial fails: return the error, the deferred close runs
DialFail(r) ==
    /\ pc[r] = "dial"
    /\ dials' = [dials EXCEPT ![r] = @ + 1]
    /\ ret' = [ret EXCEPT ![r] = "dial"]
    /\ clientConn' = [clientConn EXCEPT ![r] = DeferredClientClose(@)]
    /\ backendConn' = [backendConn EXCEPT ![r] = DeferredBackendClose(@)]
    /\ pc' = [pc EXCEPT ![r] = "uperr"]
    /\ UNCHANGED <<cfgVars, firstLogged, reqVars, hijacked, streamVars,
                   taskVars, outVars>>

\* the dial succeeds; the close of backendConn is deferred
DialOk(r) ==
    /\ pc[r] = "dial"
    /\ DialableAddr(u.Host)
    /\ dials' = [dials EXCEPT ![r] = @ + 1]
    /\ backendConn' = [backendConn EXCEPT ![r] = "open"]
    /\ backendIn' = [backendIn EXCEPT ![r] = BackendStream]
    /\ pc' = [pc EXCEPT ![r] = "replay"]
    /\ UNCHANGED <<cfgVars, firstLogged, reqVars, hijacked, clientConn,
                   clientIn, clientEOF, backendEOF, toBackend, toClient,
                   taskVars, ret, outVars>>

\* r.Write(backendConn) fails: return the error, both deferred closes run
ReplayFail(r) ==
    /\ pc[r] = "replay"
    /\ ret' = [ret EXCEPT ![r] = "write"]
    /\ clientConn' = [clientConn EXCEPT ![r] = DeferredClientClose(@)]
    /\ backendConn' = [backendConn EXCEPT ![r] = DeferredBackendClose(@)]
    /\ pc' = [pc EXCEPT ![r] = "uperr"]
    /\ UNCHANGED <<cfgVars, firstLogged, reqVars, hijacked, dials,
                   streamVars, taskVars, outVars>>

\* the copy goroutines started without the request having been written
ReplayOk_Skipped(r) ==
    /\ pc[r] = "replay"
    /\ pc' = [pc EXCEPT ![r] = "spawn"]
    /\ UNCHANGED <<cfgVars, firstLogged, reqVars, connVars, streamVars,
                   taskVars, ret, outVars>>

\* r.Write(backendConn) succeeds
ReplayOk(r) ==
    /\ pc[r] = "replay"
    /\ toBackend' = [toBackend EXCEPT ![r] = Append(@, Serialized(hdr[r]))]
    /\ pc' = [pc EXCEPT ![r] = "spawn"]
    /\ UNCHANGED <<cfgVars, firstLogged, reqVars, connVars, clientIn,
                   backendIn, clientEOF, backendEOF, toClient, taskVars,
                   ret, outVars>>

\* errc := make(chan error, 2); go func(){...}(); go func(){...}()
Spawn(r) ==
    /\ pc[r] = "spawn"
    /\ task' = [task EXCEPT ![r] = [c2b |-> "running", b2c |-> "running"]]
    /\ pc' = [pc EXCEPT ![r] = "wait"]
    /\ UNCHANGED <<cfgVars, firstLogged, reqVars, connVars, streamVars,
                   errc, sent, ret, outVars>>

\* a send on an unbuffered channel: it completes only while the receiver
\* is waiting
SendResult_Unbuffered(r, d, e) ==
    /\ task[r][d] = "running"
    /\ pc[r] = "wait" /\ Len(errc[r]) < 1
    /\ errc' = [errc EXCEPT ![r] = Append(@, e)]
    /\ sent' = [sent EXCEPT ![r] = Append(@, e)]
    /\ task' = [task EXCEPT ![r][d] = "finished"]

\* errc <- e, at the end of a copy goroutine
SendResult(r, d, e) ==
    /\ task[r][d] = "running"
    /\ Len(errc[r]) < ErrcCap
    /\ errc' = [errc EXCEPT ![r] = Append(@, e)]
    /\ sent' = [sent EXCEPT ![r] = Append(@, e)]
    /\ task' = [task EXCEPT ![r][d] = "finished"]

\* a copy that writes the chunk without consuming it from its source
C2BCopy_Repeat(r) ==
    /\ task[r].c2b = "running"
    /\ clientConn[r] = "open" /\ backendConn[r] = "open"
    /\ clientIn[r] # << >>
    /\ Len(toBackend[r]) <= MaxStream + 1
    /\ toBackend' = [toBackend EXCEPT ![r] = Append(@, Head(clientIn[r]))]
    /\ UNCHANGED <<cfgVars, firstLogged, pc, reqVars, connVars, clientIn,
                   backendIn, clientEOF, backendEOF, toClient, taskVars, ret,
                   outVars>>

\* io.Copy(backendConn, clientBuf): one chunk read from the client and
\* written to the backend
C2BCopy(r) ==
    /\ task[r].c2b = "running"
    /\ clientConn[r] = "open" /\ backendConn[r] = "open"
    /\ clientIn[r] # << >>
    /\ toBackend' = [toBackend EXCEPT ![r] = Append(@, Head(clientIn[r]))]
    /\ clientIn' = [clientIn EXCEPT ![r] = Tail(@)]
    /\ UNCHANGED <<cfgVars, firstLogged, pc, reqVars, connVars, backendIn,
                   clientEOF, backendEOF, toClient, taskVars, ret, outVars>>

\* the read from the client reports EOF: io.Copy returns nil
C2BEof(r) ==
    /\ clientConn[r] = "open"
    /\ clientIn[r] = << >> /\ clientEOF[r]
    /\ SendResult(r, "c2b", "nil")
    /\ UNCHANGED <<cfgVars, firstLogged, pc, reqVars, connVars, streamVars,
                   ret, outVars>>

\* a read or write fails while both connections are open
C2BFail(r) ==
    /\ clientConn[r] = "open" /\ backendConn[r] = "open"
    /\ SendResult(r, "c2b", "copy")
    /\ UNCHANGED <<cfgVars, firstLogged, pc, reqVars, connVars, streamVars,
                   ret, outVars>>

\* a read or write on a connection the deferred closes have closed fails
C2BClosed(r) ==
    /\ clientConn[r] = "closed" \/ backendConn[r] = "closed"
    /\ SendResult(r, "c2b", "copy")
    /\ UNCHANGED <<cfgVars, firstLogged, pc, reqVars, connVars, streamVars,
                   ret, outVars>>

\* io.Copy(clientConn, backendConn): one chunk read from the backend and
\* written to the client
B2CCopy(r) ==
    /\ task[r].b2c = "running"
    /\ clientConn[r] = "open" /\ backendConn[r] = "open"
    /\ backendIn[r] # << >>
    /\ toClient' = [toClient EXCEPT ![r] = Append(@, Head(backendIn[r]))]
    /\ backendIn' = [backendIn EXCEPT ![r] = Tail(@)]
    /\ UNCHANGED <<cfgVars, firstLogged, pc, reqVars, connVars, clientIn,
                   clientEOF, backendEOF, toBackend, taskVars, ret, outVars>>

B2CEof(r) ==
    /\ backendConn[r] = "open"
    /\ backendIn[r] = << >> /\ backendEOF[r]
    /\ SendResult(r, "b2c", "nil")
    /\ UNCHANGED <<cfgVars, firstLogged, pc, reqVars, connVars, streamVars,
                   ret, outVars>>

B2CFail(r) ==
    /\ clientConn[r] = "open" /\ backendConn[r] = "open"
    /\ SendResult(r, "b2c", "copy")
    /\ UNCHANGED <<cfgVars, firstLogged, pc, reqVars, connVars, streamVars,
                   ret, outVars>>

B2CClosed(r) ==
    /\ clientConn[r] = "closed" \/ backendConn[r] = "closed"
    /\ SendResult(r, "b2c", "copy")
    /\ UNCHANGED <<cfgVars, firstLogged, pc, reqVars, connVars, streamVars,
                   ret, outVars>>

\* a receive that takes the latest result, and one that waits for both
RecvValue_Last(ch) == ch[Len(ch)]
RecvReady_Both(ch) == Len(ch) >= 2

\* the value e := <-errc receives, and what it leaves in the channel
RecvValue(ch) == Head(ch)
RecvReady(ch) == Len(ch) >= 1

\* e := <-errc; return e   (then the two deferred closes run)
Recv(r) ==
    /\ pc[r] = "wait"
    /\ RecvReady(errc[r])
    /\ ret' = [ret EXCEPT ![r] = RecvValue(errc[r])]
    /\ errc' = [errc EXCEPT ![r] = Tail(@)]
    /\ backendConn' = [backendConn EXCEPT ![r] = DeferredBackendClose(@)]
    /\ clientConn' = [clientConn EXCEPT ![r] = DeferredClientClose(@)]
    /\ pc' = [pc EXCEPT ![r] = IF RecvValue(errc[r]) = "nil" THEN "done"
                                ELSE "uperr"]
    /\ UNCHANGED <<cfgVars, firstLogged, reqVars, hijacked, dials,
                   streamVars, task, sent, outVars>>

\* handler, err != nil: log.Printf("ERROR: upgrade proxy ..."); http.Error(w, 502)
UpgradeErr(r) ==
    /\ pc[r] = "uperr"
    /\ logs' = [logs EXCEPT ![r] = AddLog(@, "ERROR")]
    /\ resp' = [resp EXCEPT ![r] = HttpErrorResp(hijacked[r], @)]
    /\ hijackedWrites' = [hijackedWrites EXCEPT
                            ![r] = HttpErrorOnHijacked(hijacked[r], @)]
    /\ pc' = [pc EXCEPT ![r] = "done"]
    /\ UNCHANGED <<cfgVars, firstLogged, reqVars, connVars, streamVars,
                   taskVars, ret>>

\* the peers of a hijacked session close their side; what they had not yet
\* delivered is never sent.  The proxy observes a peer's close only through
\* the copy goroutine reading from that peer, so a close is modelled while
\* that goroutine runs (an earlier close is seen at its first read).
ClientClose(r) ==
    /\ task[r].c2b = "running"
    /\ clientConn[r] = "open" /\ ~clientEOF[r]
    /\ clientEOF' = [clientEOF EXCEPT ![r] = TRUE]
    /\ clientIn' = [clientIn EXCEPT ![r] = << >>]
    /\ UNCHANGED <<cfgVars, firstLogged, pc, reqVars, connVars, backendIn,
                   backendEOF, toBackend, toClient, taskVars, ret, outVars>>

BackendClose(r) ==
    /\ task[r].b2c = "running"
    /\ backendConn[r] = "open" /\ ~backendEOF[r]
    /\ backendEOF' = [backendEOF EXCEPT ![r] = TRUE]
    /\ backendIn' = [backendIn EXCEPT ![r] = << >>]
    /\ UNCHANGED <<cfgVars, firstLogged, pc, reqVars, connVars, clientIn,
                   clientEOF, toBackend, toClient, taskVars, ret, outVars>>

\* ---------------------------------------------------------------- ordinary path
\* lvl := strings.ToLower(*logLevel); switch lvl { ... }
LevelKind(level) ==
    LET lvl == ToLower(level) IN
    IF lvl = sVerbose THEN "verbose"
    ELSE IF lvl = sInfo THEN "info"
    ELSE IF lvl = sError THEN "error"
    ELSE "default"

\* the switch, up to and including the compare-and-swap of its case
LogSwitch(r) ==
    /\ pc[r] = "switch"
    /\ LET k == LevelKind(logLevel) IN
       IF k = "verbose"
       THEN /\ logs' = [logs EXCEPT ![r] = AddLog(@, "FORWARD")]
            /\ pc' = [pc EXCEPT ![r] = "serve"]
            /\ UNCHANGED firstLogged
       ELSE IF k = "error"
       THEN /\ pc' = [pc EXCEPT ![r] = "serve"]
            /\ UNCHANGED <<firstLogged, logs>>
       ELSE /\ firstLogged' = CasValue(firstLogged)
            /\ pc' = [pc EXCEPT ![r] = IF CasSwapped(firstLogged)
                                        THEN "logfirst" ELSE "serve"]
            /\ UNCHANGED logs
    /\ UNCHANGED <<cfgVars, reqVars, connVars, streamVars, taskVars, ret,
                   resp, hijackedWrites>>

\* log.Printf("FIRST: ...") of the request whose swap succeeded
LogFirst(r) ==
    /\ pc[r] = "logfirst"
    /\ logs' = [logs EXCEPT ![r] = AddLog(@, "FIRST")]
    /\ pc' = [pc EXCEPT ![r] = "serve"]
    /\ UNCHANGED <<cfgVars, firstLogged, reqVars, connVars, streamVars,
                   taskVars, ret, resp, hijackedWrites>>

\* proxy.ServeHTTP(w, r), the backend answers: its response is copied back
ServeOk(r) ==
    /\ pc[r] = "serve"
    /\ resp' = [resp EXCEPT ![r] = "200"]
    /\ pc' = [pc EXCEPT ![r] = "done"]
    /\ UNCHANGED <<cfgVars, firstLogged, reqVars, connVars, streamVars,
                   taskVars, ret, logs, hijackedWrites>>

\* an ErrorHandler that answers 502 without logging
ServeFail_NoLog(r) ==
    /\ pc[r] = "serve"
    /\ resp' = [resp EXCEPT ![r] = HttpErrorResp(hijacked[r], @)]
    /\ hijackedWrites' = [hijackedWrites EXCEPT
                            ![r] = HttpErrorOnHijacked(hijacked[r], @)]
    /\ pc' = [pc EXCEPT ![r] = "done"]
    /\ UNCHANGED <<cfgVars, firstLogged, reqVars, connVars, streamVars,
                   taskVars, ret, logs>>

\* proxy.ServeHTTP(w, r), the backend cannot be contacted: proxy.ErrorHandler
ServeFail(r) ==
    /\ pc[r] = "serve"
    /\ logs' = [logs EXCEPT ![r] = AddLog(@, "ERROR")]
    /\ resp' = [resp EXCEPT ![r] = HttpErrorResp(hijacked[r], @)]
    /\ hijackedWrites' = [hijackedWrites EXCEPT
                            ![r] = HttpErrorOnHijacked(hijacked[r], @)]
    /\ pc' = [pc EXCEPT ![r] = "done"]
    /\ UNCHANGED <<cfgVars, firstLogged, reqVars, connVars, streamVars,
                   taskVars, ret>>

\* ---------------------------------------------------------------- specification
Next ==
    \/ ResolveTarget
    \/ \E r \in Reqs :
        \/ Arrive(r)
        \/ Dispatch(r)
        \/ HijackUnsupported(r)
        \/ HijackFail(r)
        \/ HijackOk(r)
        \/ DialFail(r)
        \/ DialOk(r)
        \/ ReplayFail(r)
        \/ ReplayOk(r)
        \/ Spawn(r)
        \/ C2BCopy(r)
        \/ C2BEof(r)
        \/ C2BFail(r)
        \/ C2BClosed(r)
        \/ B2CCopy(r)
        \/ B2CEof(r)
        \/ B2CFail(r)
        \/ B2CClosed(r)
        \/ Recv(r)
        \/ UpgradeErr(r)
        \/ ClientClose(r)
        \/ BackendClose(r)
        \/ LogSwitch(r)
        \/ LogFirst(r)
        \/ ServeOk(r)
        \/ ServeFail(r)

Spec == Init /\ [][Next]_vars

\* the Go scheduler runs every runnable goroutine: the steps of the relay
\* that depend on no peer are taken once they can be
RelayFairness ==
    \A r \in Reqs :
        /\ WF_vars(C2BCopy(r)) /\ WF_vars(C2BEof(r)) /\ WF_vars(C2BClosed(r))
        /\ WF_vars(B2CCopy(r)) /\ WF_vars(B2CEof(r)) /\ WF_vars(B2CClosed(r))
        /\ WF_vars(Recv(r))

LiveSpec == Spec /\ RelayFairness

\* the process started with any of the modelled target flags
TargetInit == InitWith({sInfo}, TargetHosts, TargetPorts)
TargetSpec == TargetInit /\ [][Next]_vars

\* header sets for the classifier alone: Connection and Upgrade values in
\* several casings, positions and multiplicities
ClassifyConnections ==
    { << >>,
      << <<"U","p","g","r","a","d","e">> >>,
      << <<"U","P","G","R","A","D","E">> >>,
      << <<"u","p","g","r","a","d","e">> >>,
      << <<"k","e","e","p","-","a","l","i","v","e",","," ","U","p","g","r","a","d","e">> >>,
      << <<"k","e","e","p","-","a","l","i","v","e">> >>,
      << <<"k","e","e","p","-","a","l","i","v","e">>, <<"U","p","g","r","a","d","e">> >>,
      << <<"U","p","g","r","a","d","e">>, <<"k","e","e","p","-","a","l","i","v","e">> >>,
      << <<"c","l","o","s","e">> >> }
ClassifyUpgrades ==
    { << >>, << << >> >>, << <<"w","e","b","s","o","c","k","e","t">> >> }
ClassifyHeaders ==
    { [Connection |-> c, Upgrade |-> g] :
        c \in ClassifyConnections, g \in ClassifyUpgrades }

\* the server is serving with the default flags and every request has
\* arrived, each with one of the header sets, and is about to be classified
ClassifyInit ==
    /\ logLevel = sInfo
    /\ targetHost = DefaultTargetHost
    /\ targetPort = DefaultTargetPort
    /\ target = BuildTarget(DefaultTargetHost, DefaultTargetPort)
    /\ u \in ParseURL(BuildTarget(DefaultTargetHost, DefaultTargetPort))
    /\ phase = "serving"
    /\ firstLogged = 0
    /\ pc = [r \in Reqs |-> "handler"]
    /\ hdr \in [Reqs -> ClassifyHeaders]
    /\ hijacked = [r \in Reqs |-> FALSE]
    /\ clientConn = [r \in Reqs |-> "server"]
    /\ backendConn = [r \in Reqs |-> "none"]
    /\ dials = [r \in Reqs |-> 0]
    /\ clientIn = [r \in Reqs |-> << >>]
    /\ backendIn = [r \in Reqs |-> << >>]
    /\ clientEOF = [r \in Reqs |-> FALSE]
    /\ backendEOF = [r \in Reqs |-> FALSE]
    /\ toBackend = [r \in Reqs |-> << >>]
    /\ toClient = [r \in Reqs |-> << >>]
    /\ task = [r \in Reqs |-> [c2b |-> "none", b2c |-> "none"]]
    /\ errc = [r \in Reqs |-> << >>]
    /\ sent = [r \in Reqs |-> << >>]
    /\ ret = [r \in Reqs |-> "pending"]
    /\ logs = [r \in Reqs |-> NoLogs]
    /\ resp = [r \in Reqs |-> "none"]
    /\ hijackedWrites = [r \in Reqs |-> 0]

ClassifyNext == \E r \in Reqs : Dispatch(r)
ClassifySpec == ClassifyInit /\ [][ClassifyNext]_vars

\* ---------------------------------------------------------------- properties
\* proxyUpgrade has returned for request r
Returned(r) == ret[r] # "pending"
\* the relay step of r's proxyUpgrade has started
RelayStarted(r) == task[r].c2b # "none" /\ task[r].b2c # "none"
\* r went down the ordinary path
Ordinary(r) == pc[r] # "idle" /\ ~isUpgradeRequest(hdr[r])

RECURSIVE SumOver(_, _)
SumOver(f, S) ==
    IF S = {} THEN 0
    ELSE LET x == CHOOSE x \in S : TRUE IN f[x] + SumOver(f, S \ {x})

\* FIRST lines printed so far by the whole process
FirstLines == SumOver([r \in Reqs |-> logs[r].FIRST], Reqs)

\* C1: once proxyUpgrade has returned, a hijacked client connection is
\* closed and a dialed backend connection is closed, whichever exit was taken
C1_ClosedOnReturn ==
    \A r \in Reqs :
        Returned(r) =>
            /\ hijacked[r] => clientConn[r] = "closed"
            /\ backendConn[r] # "none" => backendConn[r] = "closed"

\* a relay that ended by EOF, with both connections closed
C1_Witness ==
    \E r \in Reqs :
        /\ ret[r] = "nil" /\ hijacked[r]
        /\ clientConn[r] = "closed" /\ backendConn[r] = "closed"

C3_NoWriteAfterHijack ==
    \A r \in Reqs : hijackedWrites[r] = 0

\* C4: the copy goroutines exist only after the request has been written to
\* the backend, and whatever the backend connection has received starts with
\* the serialized request
C4_ReplayBeforeRelay ==
    \A r \in Reqs :
        /\ (task[r].c2b # "none" \/ task[r].b2c # "none")
              => toBackend[r] # << >>
        /\ toBackend[r] # << >> => toBackend[r][1] = Serialized(hdr[r])

\* a client byte has reached the backend, behind the request
C4_Witness ==
    \E r \in Reqs :
        /\ Len(toBackend[r]) >= 2
        /\ toBackend[r][2] = ClientStream[1]

\* C5: at level info or an unrecognized level, at most one FIRST line is ever
\* printed, and exactly one once an ordinary request is past the switch and
\* no winner of the swap is still about to print
C5_ExactlyOneFirst ==
    /\ FirstLines <= 1
    /\ ( /\ LevelKind(logLevel) \in {"info", "default"}
         /\ \E r \in Reqs : Ordinary(r) /\ pc[r] \in {"serve", "done"}
         /\ \A r \in Reqs : pc[r] # "logfirst" )
       => FirstLines = 1

\* two ordinary requests are past the switch and one FIRST line was printed
C5_Witness ==
    /\ LevelKind(logLevel) \in {"info", "default"}
    /\ \E r, q \in Reqs :
          /\ r # q
          /\ Ordinary(r) /\ pc[r] \in {"serve", "done"}
          /\ Ordinary(q) /\ pc[q] \in {"serve", "done"}
    /\ FirstLines = 1

\* the dial of r was made and gave no connection
DialFailed(r) == dials[r] >= 1 /\ backendConn[r] = "none"
\* the replay of r was attempted and did not write the request
ReplayFailed(r) ==
    /\ backendConn[r] # "none" /\ toBackend[r] = << >>
    /\ pc[r] # "replay"

\* C6: after a failed dial the client connection is closed, no copy
\* goroutine exists, no byte was relayed, there is no backend connection,
\* proxyUpgrade has returned an error and dialed once; after a failed replay
\* the same holds and the dialed backend connection is closed
C6_AbortOnDialOrReplayFailure ==
    \A r \in Reqs :
        /\ DialFailed(r) =>
              /\ ret[r] \notin {"pending", "nil"}
              /\ clientConn[r] = "closed"
              /\ task[r].c2b = "none" /\ task[r].b2c = "none"
              /\ toBackend[r] = << >> /\ toClient[r] = << >>
              /\ dials[r] = 1
        /\ ReplayFailed(r) =>
              /\ ret[r] \notin {"pending", "nil"}
              /\ clientConn[r] = "closed" /\ backendConn[r] = "closed"
              /\ task[r].c2b = "none" /\ task[r].b2c = "none"
              /\ toClient[r] = << >>
              /\ dials[r] = 1

\* a dial has failed and the handler has finished
C6_Witness ==
    \E r \in Reqs : DialFailed(r) /\ ret[r] = "dial" /\ pc[r] = "done"

\* C7: a proxyUpgrade that returned from the relay returned the first value
\* sent on errc, and while it waits a single result is enough for it to return
C7_FirstResultWins ==
    \A r \in Reqs :
        /\ (RelayStarted(r) /\ Returned(r)) => ret[r] = sent[r][1]
        /\ (pc[r] = "wait" /\ Len(errc[r]) >= 1) => ENABLED Recv(r)

\* both goroutines reported, with different results, and the first was returned
C7_Witness ==
    \E r \in Reqs :
        /\ Len(sent[r]) = 2 /\ sent[r][1] # sent[r][2]
        /\ ret[r] = sent[r][1]

\* the per-request state of q
ReqState(q) ==
    <<pc[q], hdr[q], hijacked[q], clientConn[q], backendConn[q], dials[q],
      toBackend[q], toClient[q], task[q], errc[q], ret[q], logs[q], resp[q]>>

\* C8: at every log level an ordinary request answered 502 printed exactly
\* one ERROR line (and one answered by the backend printed none), each got
\* exactly one response, and the failing step changes neither the shared
\* state nor any other request
C8_OrdinaryFailure ==
    /\ [](\A r \in Reqs :
            (Ordinary(r) /\ pc[r] = "done") =>
                /\ resp[r] \in {"200", "502"}
                /\ resp[r] = "502" <=> logs[r].ERROR = 1
                /\ resp[r] = "200" <=> logs[r].ERROR = 0
                /\ hijackedWrites[r] = 0)
    /\ [][\A r \in Reqs :
            (pc[r] = "serve" /\ pc'[r] = "done" /\ resp'[r] # "200") =>
                /\ resp'[r] = "502"
                /\ firstLogged' = firstLogged /\ logLevel' = logLevel
                /\ \A q \in Reqs \ {r} : ReqState(q)' = ReqState(q)]_vars

\* at level error, one ordinary request got 502 with one ERROR line and
\* another was answered by the backend
C8_Witness ==
    /\ LevelKind(logLevel) = "error"
    /\ \E r, q \in Reqs :
          /\ Ordinary(r) /\ pc[r] = "done"
          /\ resp[r] = "502" /\ logs[r].ERROR = 1
          /\ Ordinary(q) /\ pc[q] = "done" /\ resp[q] = "200"

\* C9 (as claimed): an upgrade request whose dial or replay failed ends with
\* the client having received 502 and one ERROR line printed
C9_UpgradeBackendError502 ==
    \A r \in Reqs :
        (ret[r] \in {"dial", "write"} /\ pc[r] = "done") =>
            /\ resp[r] = "502"
            /\ logs[r].ERROR = 1

\* C10 (as claimed): at verbose every handled request printed one FORWARD
\* line; at error a successful ordinary request printed nothing
C10_ForwardPerRequest ==
    \A r \in Reqs :
        pc[r] = "done" =>
            /\ LevelKind(logLevel) = "verbose" => logs[r].FORWARD = 1
            /\ (LevelKind(logLevel) = "error" /\ Ordinary(r) /\ resp[r] = "200")
                  => logs[r] = NoLogs

\* some Connection value of h contains "upgrade", in any casing
AnyConnectionHasUpgrade(h) ==
    \E i \in DOMAIN h.Connection : Contains(ToLower(h.Connection[i]), sUpgrade)
\* h has a non-empty Upgrade value
HasUpgradeValue(h) ==
    \E i \in DOMAIN h.Upgrade : h.Upgrade[i] # << >>

\* C11 (as claimed): a request with "upgrade" in any Connection value is
\* classified as an upgrade, and a request with neither that nor a non-empty
\* Upgrade header is classified as ordinary
C11_Classifier ==
    \A r \in Reqs :
        /\ (pc[r] = "switch") => ~AnyConnectionHasUpgrade(hdr[r])
        /\ (pc[r] = "hijack") =>
              (AnyConnectionHasUpgrade(hdr[r]) \/ HasUpgradeValue(hdr[r]))

\* addr ends in ":port"
AddrHasPort(addr) ==
    LET i == LastIndexOf(addr, ":") IN i > 0 /\ i < Len(addr)
\* the port of addr, "" when it has none
PortOf(addr) ==
    LET i == LastIndexOf(addr, ":") IN
    IF i = 0 THEN << >> ELSE SubSeq(addr, i + 1, Len(addr))
\* the --target-host value without its scheme
WithoutScheme(host) ==
    IF HasPrefix(host, sHttpPrefix)
    THEN SubSeq(host, Len(sHttpPrefix) + 1, Len(host))
    ELSE IF HasPrefix(host, sHttpsPrefix)
    THEN SubSeq(host, Len(sHttpsPrefix) + 1, Len(host))
    ELSE host
HasScheme(host) == WithoutScheme(host) # host
\* the --target-host value includes a port
FlagHasPort(host) == Contains(WithoutScheme(host), <<":">>)

\* C12 (as claimed): whatever the target flags, the address proxyUpgrade
\* dials includes a port
C12_DialAddrHasPort ==
    \A r \in Reqs : dials[r] >= 1 => AddrHasPort(u.Host)

\* C13 (as claimed): when --target-host has no port, the port of the
\* effective target is --target-port
C13_TargetPortUsed ==
    (phase = "serving" /\ ~FlagHasPort(targetHost))
        => PortOf(u.Host) = Itoa(targetPort)

\* C14 (as claimed): when --target-host has a port, the target is that value
\* (behind http:// when it has no scheme) and --target-port is not appended
C14_PortNotAppended ==
    (phase # "flags" /\ FlagHasPort(targetHost))
        => target = (IF HasScheme(targetHost) THEN targetHost
                     ELSE sHttpPrefix \o targetHost)

\* proxyUpgrade returned because w could not be hijacked
HijackRefused(r) == ret[r] \in {"nohijacker", "hijackfail"}

\* C15: when w is no Hijacker or Hijack fails, proxyUpgrade has returned an
\* error with no dial, no backend connection and no copy goroutine, the
\* connection is still the server's, and once the handler is done it has
\* printed one ERROR line and answered 502 on the un-hijacked w
C15_HijackRefused ==
    \A r \in Reqs :
        HijackRefused(r) =>
            /\ dials[r] = 0 /\ backendConn[r] = "none"
            /\ task[r].c2b = "none" /\ task[r].b2c = "none"
            /\ ~hijacked[r] /\ clientConn[r] = "server"
            /\ pc[r] \in {"uperr", "done"}
            /\ pc[r] = "uperr" => (logs[r].ERROR = 0 /\ resp[r] = "none")
            /\ pc[r] = "done" =>
                  /\ logs[r] = [NoLogs EXCEPT !.ERROR = 1]
                  /\ resp[r] = "502"
                  /\ hijackedWrites[r] = 0

\* a request whose hijack was refused has been answered
C15_Witness ==
    \E r \in Reqs : HijackRefused(r) /\ pc[r] = "done" /\ resp[r] = "502"

\* copy goroutines of r that have not yet sent their result
RunningTasks(r) ==
    Cardinality({d \in {"c2b", "b2c"} : task[r][d] = "running"})

\* C16: the results still to be sent always fit in errc, so no send blocks,
\* and once proxyUpgrade has returned from the relay both copy goroutines
\* eventually finish
C16_AbandonedTaskEnds ==
    /\ [](\A r \in Reqs : Len(errc[r]) + RunningTasks(r) <= ErrcCap)
    /\ \A r \in Reqs :
          (RelayStarted(r) /\ Returned(r))
              ~> (task[r].c2b = "finished" /\ task[r].b2c = "finished")

\* proxyUpgrade returned the first result and the abandoned goroutine then
\* failed on the closed connections and left its result in the channel
C16_Witness ==
    \E r \in Reqs :
        /\ Returned(r) /\ sent[r] = <<"nil", "copy">>
        /\ errc[r] = <<"copy">>
        /\ task[r].c2b = "finished" /\ task[r].b2c = "finished"
        /\ pc[r] = "done"

\* C17: a request classified as an upgrade is never in the log-level switch
\* or in proxy.ServeHTTP and leaves no trace of them; a request classified
\* as ordinary never enters proxyUpgrade
C17_ExactlyOnePath ==
    \A r \in Reqs :
        pc[r] \notin {"idle", "handler"} =>
            IF isUpgradeRequest(hdr[r])
            THEN /\ pc[r] \notin {"switch", "logfirst", "serve"}
                 /\ logs[r].FORWARD = 0 /\ logs[r].FIRST = 0
                 /\ resp[r] # "200"
            ELSE /\ pc[r] \in {"switch", "logfirst", "serve", "done"}
                 /\ ~hijacked[r] /\ clientConn[r] = "server"
                 /\ dials[r] = 0 /\ backendConn[r] = "none"
                 /\ ret[r] = "pending"
                 /\ task[r].c2b = "none" /\ task[r].b2c = "none"

\* an upgrade request and an ordinary request have both been handled
C17_Witness ==
    \E r, q \in Reqs :
        /\ isUpgradeRequest(hdr[r]) /\ pc[r] = "done" /\ hijacked[r]
        /\ ~isUpgradeRequest(hdr[q]) /\ pc[q] = "done" /\ resp[q] = "200"

IsPrefixOf(a, b) == Len(a) <= Len(b) /\ SubSeq(b, 1, Len(a)) = a

C19_FirstLoggedMonotone ==
    /\ firstLogged = 0
    /\ [][firstLogged' # firstLogged =>
            /\ firstLogged = 0 /\ firstLogged' = 1
            /\ LevelKind(logLevel) \in {"info", "default"}
            /\ \E r \in Reqs :
                  /\ ~isUpgradeRequest(hdr[r])
                  /\ pc[r] = "switch" /\ pc'[r] = "logfirst"]_vars

\* the flag is set and, since then or before, an upgrade request has ended
\* in an error and an ordinary request has met a backend failure
C19_Witness ==
    /\ firstLogged = 1
    /\ \E r, q \in Reqs :
          /\ isUpgradeRequest(hdr[r]) /\ pc[r] = "done" /\ logs[r].ERROR = 1
          /\ ~isUpgradeRequest(hdr[q]) /\ pc[q] = "done" /\ resp[q] = "502"

====
